---- MODULE Spec2Model ----
(***************************************************************************)
(* Face-triggered recording web application.                               *)
(*                                                                         *)
(* FaceRecordingApp (static/app.js): the browser client that polls         *)
(* /api/detect-face, starts a MediaRecorder on a rising face edge and      *)
(* stops it from a timer, a manual toggle or stopCamera.                   *)
(* FaceRecorder (app/static/js/app.js): the client that streams frames     *)
(* over a WebSocket between POST /start and POST /stop.                    *)
(*                                                                         *)
(* JavaScript runs every handler to completion, so one action is one task  *)
(* of the event loop: a click handler, a timer callback, the continuation  *)
(* of an await, or a MediaRecorder event.  Time is abstracted: a pending   *)
(* timer or request may complete at any later step.                        *)
(***************************************************************************)
EXTENDS Integers, Sequences, FiniteSets, TLC

\* ------------------------------------------------------------------ bounds
MaxStreams == 2        \* camera streams alive at once
MaxGum == 1            \* startCamera calls awaiting getUserMedia at once
MaxInflight == 2       \* /api/detect-face requests in flight at once
MaxOrphans == 1        \* pending timers whose id the app no longer holds
MaxRestarts == 1       \* pending restartFaceDetection timers
MaxRecorders == 2      \* MediaRecorder objects recording at once
MaxCalls == 1          \* FaceRecorder: calls waiting at one await at once
MaxSockets == 2        \* FaceRecorder: WebSockets not yet closed at once
MaxLoops == 2          \* FaceRecorder: captureFrame chains scheduled at once
MaxFrames == 6         \* SessionController: frames accepted in one behaviour
MaxWriters == 2        \* SessionController: writers opened in one behaviour
MaxStale == 1          \* SessionController: abandoned detections still running
MaxFiles == 3          \* RecordingLibrary: recordings the server ever holds
MaxDeletes == 2        \* RecordingLibrary: DELETE requests under way at once
MaxRecordings == 2     \* saving: MediaRecorders constructed in one behaviour
MaxLists == 1          \* saving: GET /api/recordings requests under way at once
MaxCaptures == 4       \* CameraPreview: frames captured in one behaviour
MaxSubscribers == 2    \* StatusBroadcaster: subscribers there can be
MaxEvents == 4         \* StatusBroadcaster: events published in one behaviour

NoFaceThreshold == 3   \* N of the specification's hysteresis rule
QueueBound == 2        \* the bound of the specification's per-session frame queue
BufferBound == 2       \* the bound of the specification's per-subscriber event buffer

Streams == 1..MaxStreams
Recorders == 1..MaxRecorders
\* A timer field (detectionTimer, recordingTimer) holds null, the id of a timer
\* still pending, or the id of a timer that already ran.  clearTimeout of an id
\* that already ran does nothing, so such an id behaves as null does: the
\* field is "pending" or "idle", and "idle" stands for both.
\* A recorder is "recording" or "inactive"; a socket is "none", "connecting",
\* "open" or "closing" (its close event is queued).

VARIABLES
    app,          \* FaceRecordingApp: its fields and the browser resources it drives
    noFaceRun,    \* history: consecutive no-face results seen by the latest recording
    recOrigin,    \* history: what opened the open recording: "none", "detect", "manual"
    closedBy,     \* history: what closed it: "none" (open, or none yet), "timer", "manual", "stop"
    lastDetect,   \* history: "failed" when the latest step handled a detection answer that was a failure, else "none"
    fr,           \* FaceRecorder: its fields and the browser resources it drives
    sc,           \* SessionController: the session, its frame queue, its writers, the catalog
    plan,         \* the detector's answers to the frames of a scripted run, by frame number
    lib,          \* RecordingLibrary: its state, its requests under way, the server's files
    sv,           \* FaceRecordingApp's recordings from stop to upload: chunks, recorder events, uploads
    cam,          \* CameraPreview: the frames on their way from the canvas to the socket
    bc,           \* StatusBroadcaster: its subscribers and the events on their way to them
    cp,           \* CameraPreview: the component's state, refs, closures and browser resources
    ca,           \* FaceRecordingApp.clearAllRecordings: the call in progress and the server's files
    lg,           \* FaceRecordingApp.log: the child nodes of the log container
    cameraWanted  \* history: the user's latest camera command to FaceRecordingApp, "start" or "stop" ("stop" before any);
                  \* "unobserved" in the specifications that do not follow it

vars == <<app, noFaceRun, recOrigin, closedBy, lastDetect, fr, sc, plan, lib, sv,
         cam, bc, cp, ca, lg, cameraWanted>>

Min(a, b) == IF a < b THEN a ELSE b

\* ------------------------------------------------------- FaceRecordingApp
\* The state after the constructor (lines 39-47); the markup decides which
\* controls start disabled and whether auto-record starts checked.
AppInit(stopDis, manDis, mime) ==
    [ stream |-> 0,
      mediaRecorder |-> 0,
      isRecording |-> FALSE,
      faceDetectionActive |-> FALSE,
      detectionTimer |-> "idle",
      recordingTimer |-> "idle",
      lastFaceDetected |-> FALSE,
      autoRecord |-> TRUE,
      startCameraBtnDisabled |-> FALSE,
      stopCameraBtnDisabled |-> stopDis,
      manualRecordBtnDisabled |-> manDis,
      faceStatus |-> FALSE,
      \* browser side
      mimeSupported |-> mime,
      liveStreams |-> {},
      srcObject |-> 0,
      metaFired |-> FALSE,
      metaWaiting |-> FALSE,
      gumPending |-> 0,
      inflight |-> 0,
      detOrphans |-> 0,
      recOrphans |-> 0,
      restartTimers |-> 0,
      recorders |-> [r \in Recorders |-> "inactive"],
      capped |-> FALSE ]

\* updateFaceStatus(detected)
updateFaceStatus(s, detected) == [s EXCEPT !.faceStatus = detected]

\* detectFace(), up to its await: the guard, then one request in flight.
detectFace(s) ==
    IF ~s.faceDetectionActive \/ s.stream = 0
    THEN s
    ELSE [s EXCEPT !.inflight = @ + 1]

\* startFaceDetection()
startFaceDetection(s) ==
    IF s.faceDetectionActive
    THEN s
    ELSE detectFace([s EXCEPT !.faceDetectionActive = TRUE])

\* stopFaceDetection()
stopFaceDetection(s) ==
    [s EXCEPT !.faceDetectionActive = FALSE,
              !.detectionTimer = "idle",
              !.faceStatus = FALSE]

\* restartFaceDetection()
restartFaceDetection(s) ==
    IF s.faceDetectionActive
    THEN [stopFaceDetection(s) EXCEPT !.restartTimers = @ + 1]
    ELSE s

\* new MediaRecorder(...): the model reuses the slot of a recorder that is
\* inactive, which nothing can tell from a new one.
HasFreeRecorder(s) == \E r \in Recorders : s.recorders[r] = "inactive"

FreeRecorder(s) == CHOOSE r \in Recorders :
                      /\ s.recorders[r] = "inactive"
                      /\ \A q \in Recorders : s.recorders[q] = "inactive" => r <= q

\* Mutant of startRecording: the flag is raised before the constructor is
\* tried, so it stays raised when the constructor throws.
startRecording_FlagBeforeTry(s) ==
    IF s.stream = 0 \/ s.isRecording
    THEN s
    ELSE IF ~s.mimeSupported
         THEN [s EXCEPT !.isRecording = TRUE]
         ELSE IF ~HasFreeRecorder(s)
         THEN [s EXCEPT !.capped = TRUE]
         ELSE LET r == FreeRecorder(s) IN
              [s EXCEPT !.mediaRecorder = r,
                        !.recorders[r] = "recording",
                        !.isRecording = TRUE]

\* startRecording(): the constructor throws when the mime type is unsupported.
\* The chunks a recorder emits and their upload feed back into no decision
\* taken here.
startRecording(s) ==
    IF s.stream = 0 \/ s.isRecording
    THEN s
    ELSE IF ~s.mimeSupported
         THEN s
         ELSE IF ~HasFreeRecorder(s)
         THEN [s EXCEPT !.capped = TRUE]
         ELSE LET r == FreeRecorder(s) IN
              [s EXCEPT !.mediaRecorder = r,
                        !.recorders[r] = "recording",
                        !.isRecording = TRUE]

\* Mutant of stopRecording: the flag is lowered but mediaRecorder.stop() is
\* never called.
stopRecording_KeepsRecorder(s) ==
    IF ~s.isRecording \/ s.mediaRecorder = 0
    THEN s
    ELSE [s EXCEPT !.recordingTimer = "idle",
                   !.isRecording = FALSE]

\* stopRecording(): MediaRecorder.stop() makes the recorder inactive at once.
stopRecording(s) ==
    IF ~s.isRecording \/ s.mediaRecorder = 0
    THEN s
    ELSE [s EXCEPT !.recordingTimer = "idle",
                   !.recorders[s.mediaRecorder] = "inactive",
                   !.isRecording = FALSE]

\* setTimeout stored in this.recordingTimer: a timer still pending under the
\* old id keeps running with no reference left to it.
setRecordingTimer(s) ==
    [s EXCEPT !.recOrphans = IF s.recordingTimer = "pending" THEN @ + 1 ELSE @,
              !.recordingTimer = "pending"]

\* startAutoRecording()
startAutoRecording(s) == setRecordingTimer(startRecording(s))

\* toggleManualRecording()
toggleManualRecording(s) ==
    IF s.isRecording THEN stopRecording(s) ELSE startRecording(s)

\* The callback of the auto-stop timer (lines 228-233).
recordingTimerCallback(s) ==
    IF s.isRecording THEN stopRecording(s) ELSE s

\* Mutant of stopCamera: the open recording is not stopped.
stopCamera_KeepsRecording(s) ==
    LET a == stopFaceDetection(s)
    IN [a EXCEPT !.liveStreams = @ \ {a.stream},
                 !.stream = 0,
                 !.srcObject = 0,
                 !.faceStatus = FALSE,
                 !.startCameraBtnDisabled = FALSE,
                 !.stopCameraBtnDisabled = TRUE,
                 !.manualRecordBtnDisabled = TRUE]

\* stopCamera()
stopCamera(s) ==
    LET a == stopFaceDetection(s)
        b == IF a.isRecording THEN stopRecording(a) ELSE a
    IN [b EXCEPT !.liveStreams = @ \ {b.stream},
                 !.stream = 0,
                 !.srcObject = 0,
                 !.faceStatus = FALSE,
                 !.startCameraBtnDisabled = FALSE,
                 !.stopCameraBtnDisabled = TRUE,
                 !.manualRecordBtnDisabled = TRUE]

\* detectFace() after its awaits: the result is handled, then the next
\* detection is scheduled whatever the state is.
setDetectionTimer(s) ==
    [s EXCEPT !.detOrphans = IF s.detectionTimer = "pending" THEN @ + 1 ELSE @,
              !.detectionTimer = "pending"]

handleDetection(s, faceDetected) ==
    LET a == updateFaceStatus(s, faceDetected)
        b == IF a.autoRecord /\ faceDetected /\ ~a.lastFaceDetected /\ ~a.isRecording
             THEN startAutoRecording(a)
             ELSE a
    IN [b EXCEPT !.lastFaceDetected = faceDetected]

DetectOutcomes == {"face", "noface", "notok", "error"}

\* Mutant of detectFaceResume: a failed detection returns without scheduling
\* the next one.
detectFaceResume_StopsOnFailure(s, outcome) ==
    LET a == [s EXCEPT !.inflight = @ - 1]
    IN IF outcome \in {"face", "noface"}
       THEN setDetectionTimer(handleDetection(a, outcome = "face"))
       ELSE a

detectFaceResume(s, outcome) ==
    LET a == [s EXCEPT !.inflight = @ - 1]
        b == IF outcome \in {"face", "noface"}
             THEN handleDetection(a, outcome = "face")
             ELSE a
    IN setDetectionTimer(b)

\* getUserMedia hands out a stream that is not alive yet; the model names it
\* by the least free number.
NewStream(s) == CHOOSE id \in Streams \ s.liveStreams :
                   \A q \in Streams \ s.liveStreams : id <= q

\* startCamera() between its two awaits (lines 93-99): the stream is stored and
\* shown, and the call waits for the video's loadedmetadata, whose one handler
\* slot it overwrites.
startCameraGotStream(s, id) ==
    [s EXCEPT !.gumPending = @ - 1,
              !.liveStreams = @ \cup {id},
              !.stream = id,
              !.srcObject = id,
              !.metaFired = FALSE,
              !.metaWaiting = TRUE]

\* startCamera() after its two awaits (lines 101-114).
startCameraResume(s) ==
    startFaceDetection([s EXCEPT !.startCameraBtnDisabled = TRUE,
                             !.stopCameraBtnDisabled = FALSE,
                             !.manualRecordBtnDisabled = FALSE])

InBounds(s) ==
    /\ ~s.capped
    /\ s.gumPending <= MaxGum
    /\ s.inflight <= MaxInflight
    /\ s.detOrphans <= MaxOrphans
    /\ s.recOrphans <= MaxOrphans
    /\ s.restartTimers <= MaxRestarts

\* One task of FaceRecordingApp's event loop: the app moves to t.  The history
\* variables note what opened the recording (actor, when one opens), what
\* closed it (actor, when it closes) and the run of no-face results it saw.
StepNoting(t, actor, run, detect) ==
    /\ InBounds(t)
    /\ app' = t
    /\ UNCHANGED <<fr, sc, plan, lib, sv, cam, bc, cp, ca, lg>>
    /\ lastDetect' = detect
    /\ cameraWanted' = IF cameraWanted # "unobserved" /\ actor \in {"start", "stop"}
                       THEN actor
                       ELSE cameraWanted
    /\ recOrigin' = IF ~t.isRecording THEN "none"
                    ELSE IF ~app.isRecording THEN actor ELSE recOrigin
    /\ closedBy' = IF t.isRecording THEN "none"
                   ELSE IF app.isRecording THEN actor ELSE closedBy
    /\ noFaceRun' = IF ~t.isRecording THEN noFaceRun
                    ELSE IF ~app.isRecording THEN 0 ELSE run

Step(t, actor, run) == StepNoting(t, actor, run, "none")

\* ---------------------------------------------------------------- actions
ClickStartCamera ==
    /\ ~app.startCameraBtnDisabled
    /\ Step([app EXCEPT !.gumPending = @ + 1], "start", noFaceRun)

GetUserMediaResolve ==
    /\ app.gumPending > 0
    /\ Streams \ app.liveStreams # {}
    /\ Step(startCameraGotStream(app, NewStream(app)), "other", noFaceRun)

GetUserMediaReject ==
    /\ app.gumPending > 0
    /\ Step([app EXCEPT !.gumPending = @ - 1], "other", noFaceRun)

LoadedMetadata ==
    /\ app.srcObject # 0
    /\ ~app.metaFired
    /\ LET a == [app EXCEPT !.metaFired = TRUE, !.metaWaiting = FALSE]
       IN Step(IF app.metaWaiting THEN startCameraResume(a) ELSE a,
               "other", noFaceRun)

ClickStopCamera ==
    /\ ~app.stopCameraBtnDisabled
    /\ Step(stopCamera(app), "stop", noFaceRun)

ClickManualRecord ==
    /\ ~app.manualRecordBtnDisabled
    /\ Step(toggleManualRecording(app), "manual", noFaceRun)

ChangeDetectionInterval ==
    /\ app.faceDetectionActive
    /\ Step(restartFaceDetection(app), "other", noFaceRun)

ToggleAutoRecord ==
    Step([app EXCEPT !.autoRecord = ~@], "other", noFaceRun)

RestartTimerFire ==
    /\ app.restartTimers > 0
    /\ Step(startFaceDetection([app EXCEPT !.restartTimers = @ - 1]),
            "other", noFaceRun)

DetectResult(outcome) ==
    /\ app.inflight > 0
    /\ StepNoting(detectFaceResume(app, outcome), "detect",
                  IF outcome = "face" THEN 0
                  ELSE IF outcome = "noface" THEN Min(noFaceRun + 1, NoFaceThreshold)
                  ELSE noFaceRun,
                  IF outcome \in {"face", "noface"} THEN "none" ELSE "failed")

DetectResponse == \E outcome \in DetectOutcomes : DetectResult(outcome)

DetectionTimerFire ==
    /\ app.detectionTimer = "pending"
    /\ Step(detectFace([app EXCEPT !.detectionTimer = "idle"]),
            "other", noFaceRun)

OrphanDetectionTimerFire ==
    /\ app.detOrphans > 0
    /\ Step(detectFace([app EXCEPT !.detOrphans = @ - 1]), "other", noFaceRun)

RecordingTimerFire ==
    /\ app.recordingTimer = "pending"
    /\ Step(recordingTimerCallback([app EXCEPT !.recordingTimer = "idle"]),
            "timer", noFaceRun)

OrphanRecordingTimerFire ==
    /\ app.recOrphans > 0
    /\ Step(recordingTimerCallback([app EXCEPT !.recOrphans = @ - 1]),
            "timer", noFaceRun)

\* ----------------------------------------------------------- FaceRecorder
Sockets == 1..MaxSockets

\* The state after the constructor (lines 10-12); the markup decides whether
\* the stop button starts disabled.
FRInit(stopDis) ==
    [ stream |-> 0,
      websocket |-> 0,
      isMonitoring |-> FALSE,
      startBtnDisabled |-> FALSE,
      stopBtnDisabled |-> stopDis,
      indicatorHidden |-> TRUE,
      \* browser side
      liveStreams |-> {},
      sockets |-> [k \in Sockets |-> "none"],   \* "closing": its close event is queued
      gumPending |-> 0,        \* startMonitoring calls awaiting getUserMedia
      startPosts |-> 0,        \* startMonitoring calls awaiting POST /start
      stopPosts |-> 0,         \* stopMonitoring calls awaiting POST /stop
      loops |-> 0,             \* captureFrame callbacks scheduled
      capped |-> FALSE ]

HasFreeSocket(s) == \E k \in Sockets : s.sockets[k] = "none"

FreeSocket(s) == CHOOSE k \in Sockets :
                    /\ s.sockets[k] = "none"
                    /\ \A q \in Sockets : s.sockets[q] = "none" => k <= q

\* setupWebSocket(): the old socket, if any, is neither closed nor kept.
setupWebSocket(s) ==
    IF ~HasFreeSocket(s)
    THEN [s EXCEPT !.capped = TRUE]
    ELSE LET k == FreeSocket(s) IN
         [s EXCEPT !.websocket = k, !.sockets[k] = "connecting"]

\* captureFrame(), the callback of startFrameCapture: it reschedules itself
\* while monitoring is on and a socket is held.
captureFrame(s) ==
    IF ~s.isMonitoring \/ s.websocket = 0
    THEN s
    ELSE [s EXCEPT !.loops = @ + 1]

\* startMonitoring() after POST /start answered ok (lines 39-48).
startMonitoringResume(s) ==
    LET a == setupWebSocket(s)
    IN captureFrame([a EXCEPT !.isMonitoring = TRUE,
                              !.startBtnDisabled = TRUE,
                              !.stopBtnDisabled = FALSE])

\* stopMonitoring() after POST /stop was answered (lines 60-75).
stopMonitoringResume(s) ==
    [s EXCEPT !.sockets = IF s.websocket # 0 /\ @[s.websocket] # "none"
                          THEN [@ EXCEPT ![s.websocket] = "closing"]
                          ELSE @,
              !.websocket = 0,
              !.liveStreams = @ \ {s.stream},
              !.stream = 0,
              !.isMonitoring = FALSE,
              !.startBtnDisabled = FALSE,
              !.stopBtnDisabled = TRUE,
              !.indicatorHidden = TRUE]

\* stopMonitoring(), up to its await: POST /stop is sent.
stopMonitoring(s) == [s EXCEPT !.stopPosts = @ + 1]

FRInBounds(s) ==
    /\ ~s.capped
    /\ s.gumPending <= MaxCalls
    /\ s.startPosts <= MaxCalls
    /\ s.stopPosts <= MaxCalls + 1
    /\ s.loops <= MaxLoops

FRStep(t) ==
    /\ FRInBounds(t)
    /\ fr' = t
    /\ UNCHANGED <<app, noFaceRun, recOrigin, closedBy, lastDetect, sc, plan, lib, sv, cam, bc, cp, ca, lg, cameraWanted>>

FR_ClickStart ==
    /\ ~fr.startBtnDisabled
    /\ FRStep([fr EXCEPT !.gumPending = @ + 1])

FR_GetUserMediaResolve ==
    /\ fr.gumPending > 0
    /\ Streams \ fr.liveStreams # {}
    /\ LET id == NewStream(fr) IN
       FRStep([fr EXCEPT !.gumPending = @ - 1,
                         !.liveStreams = @ \cup {id},
                         !.stream = id,
                         !.startPosts = @ + 1])

FR_GetUserMediaReject ==
    /\ fr.gumPending > 0
    /\ FRStep([fr EXCEPT !.gumPending = @ - 1])

\* POST /start settles: answered ok, answered with an error status, or rejected.
FR_StartPostSettle ==
    /\ fr.startPosts > 0
    /\ \E outcome \in {"ok", "notok", "rejected"} :
          LET a == [fr EXCEPT !.startPosts = @ - 1]
          IN FRStep(IF outcome = "ok" THEN startMonitoringResume(a) ELSE a)

FR_ClickStop ==
    /\ ~fr.stopBtnDisabled
    /\ FRStep(stopMonitoring(fr))

\* POST /stop settles: fetch fulfils on any answer and rejects when the
\* request cannot be made; the catch only logs.
FR_StopPostFulfilled ==
    /\ fr.stopPosts > 0
    /\ FRStep(stopMonitoringResume([fr EXCEPT !.stopPosts = @ - 1]))

FR_StopPostRejected ==
    /\ fr.stopPosts > 0
    /\ FRStep([fr EXCEPT !.stopPosts = @ - 1])

FR_StopPostSettle == FR_StopPostFulfilled \/ FR_StopPostRejected

FR_SocketOpen ==
    \E k \in Sockets :
        /\ fr.sockets[k] = "connecting"
        /\ FRStep([fr EXCEPT !.sockets[k] = "open"])

\* onmessage (lines 89-96)
FR_SocketMessage ==
    \E k \in Sockets, recording \in BOOLEAN :
        /\ fr.sockets[k] = "open"
        /\ FRStep([fr EXCEPT !.indicatorHidden = ~recording])

\* onerror (lines 105-108); the browser closes the socket after the error.
FR_SocketError ==
    \E k \in Sockets :
        /\ fr.sockets[k] \in {"connecting", "open"}
        /\ FRStep(stopMonitoring([fr EXCEPT !.sockets[k] = "closing"]))

\* The server or the network ends the connection.
FR_SocketDrop ==
    \E k \in Sockets :
        /\ fr.sockets[k] = "open"
        /\ FRStep([fr EXCEPT !.sockets[k] = "closing"])

\* onclose (lines 98-103)
FR_SocketClose ==
    \E k \in Sockets :
        /\ fr.sockets[k] = "closing"
        /\ LET a == [fr EXCEPT !.sockets[k] = "none"]
           IN FRStep(IF a.isMonitoring THEN stopMonitoring(a) ELSE a)

\* requestAnimationFrame runs one scheduled captureFrame.
FR_AnimationFrame ==
    /\ fr.loops > 0
    /\ FRStep(captureFrame([fr EXCEPT !.loops = @ - 1]))

\* ------------------------------------------------------ SessionController
\* The server side of the session (specification sections 3, 4.1, 5 and 6):
\* the state machine with its hysteresis counter, the bounded frame queue in
\* front of the one worker, the writers and the catalog.  A frame is its
\* sequence number.  Forced recordings are not part of this model.
Writers == 1..MaxWriters

SCInit ==
    [ state |-> "Idle",
      consecutiveNoFaceFrames |-> 0,
      activeRecording |-> 0,
      queue |-> <<>>,            \* frames accepted and waiting for the worker
      detecting |-> 0,           \* the frame the detector is working on, or 0
      stale |-> 0,               \* detections under way for a session that was stopped
      frameSeq |-> 0,            \* frames accepted so far
      answer |-> "none",         \* what the latest submitFrame answered
      open |-> {},               \* writers with status Open
      written |-> [w \in Writers |-> <<>>],   \* the frames appended to each writer
      nextWriter |-> 1,
      catalog |-> <<>>,          \* the writers finalized into an entry, oldest first
      stored |-> [w \in Writers |-> <<>>],    \* backing storage: the artifact of each entry
      sizes |-> [w \in Writers |-> 0],        \* the size each entry reports
      results |-> <<>>,          \* history: the detection results of the session so far
      capped |-> FALSE ]

\* start(): idempotent.
start(s) ==
    IF s.state # "Idle"
    THEN s
    ELSE [s EXCEPT !.state = "Watching",
                   !.consecutiveNoFaceFrames = 0,
                   !.queue = <<>>,
                   !.results = <<>>]

\* RecordingWriter.open
openWriter(s) ==
    IF s.nextWriter > MaxWriters
    THEN [s EXCEPT !.capped = TRUE]
    ELSE [s EXCEPT !.open = @ \cup {s.nextWriter},
                   !.activeRecording = s.nextWriter,
                   !.nextWriter = @ + 1]

\* RecordingWriter.appendFrame on the active writer
appendFrame(s, frame) ==
    IF s.activeRecording = 0
    THEN s
    ELSE [s EXCEPT !.written[s.activeRecording] = Append(@, frame)]

\* Mutant of finalize: the artifact is closed before the last frame is
\* flushed.
finalize_LosesTail(s) ==
    IF s.activeRecording = 0
    THEN s
    ELSE LET w == s.activeRecording
         IN [s EXCEPT !.open = @ \ {w},
                      !.stored[w] = SubSeq(s.written[w], 1, Len(s.written[w]) - 1),
                      !.sizes[w] = Len(s.written[w]),
                      !.catalog = Append(@, w),
                      !.activeRecording = 0]

\* RecordingWriter.finalize on the active writer: what was appended is flushed
\* to the artifact, the final size is computed, and the entry joins the
\* catalog.
finalize(s) ==
    IF s.activeRecording = 0
    THEN s
    ELSE LET w == s.activeRecording
         IN [s EXCEPT !.open = @ \ {w},
                      !.stored[w] = s.written[w],
                      !.sizes[w] = Len(s.written[w]),
                      !.catalog = Append(@, w),
                      !.activeRecording = 0]

\* getRecording(filename): the artifact's bytes, or NotFound.
getRecording(s, w) ==
    IF \E i \in 1..Len(s.catalog) : s.catalog[i] = w
    THEN s.stored[w]
    ELSE "NotFound"

\* listRecordings(): each entry with the size it reports, newest first.
listRecordings(s) ==
    [i \in 1..Len(s.catalog) |->
        LET w == s.catalog[Len(s.catalog) + 1 - i]
        IN [filename |-> w, sizeBytes |-> s.sizes[w]]]

\* stop(): idempotent; finalizes the open recording at once; a detection under
\* way is abandoned and its result discarded when it arrives.
stop(s) ==
    IF s.state = "Idle"
    THEN s
    ELSE [finalize(s) EXCEPT !.state = "Idle",
                             !.queue = <<>>,
                             !.stale = IF s.detecting # 0 THEN @ + 1 ELSE @,
                             !.detecting = 0]

\* Mutant of submitFrame: a frame for a session that is not active starts
\* the session and is accepted.
submitFrame_StartsSession(s) ==
    LET a == start(s)
    IN IF Len(a.queue) >= QueueBound
       THEN [a EXCEPT !.answer = "rejected"]
       ELSE [a EXCEPT !.frameSeq = @ + 1,
                      !.queue = Append(@, a.frameSeq + 1),
                      !.answer = "accepted"]

\* Mutant of submitFrame: the queue is not bounded.
submitFrame_Unbounded(s) ==
    IF s.state = "Idle"
    THEN [s EXCEPT !.answer = "invalid"]
    ELSE [s EXCEPT !.frameSeq = @ + 1,
                   !.queue = Append(@, s.frameSeq + 1),
                   !.answer = "accepted"]

\* submitFrame(): InvalidState without a session; a frame that finds the
\* queue full is dropped and answered accepted = false.
submitFrame(s) ==
    IF s.state = "Idle"
    THEN [s EXCEPT !.answer = "invalid"]
    ELSE IF Len(s.queue) >= QueueBound
    THEN [s EXCEPT !.answer = "rejected"]
    ELSE [s EXCEPT !.frameSeq = @ + 1,
                   !.queue = Append(@, s.frameSeq + 1),
                   !.answer = "accepted"]

\* Mutant of onDetection: a detection does not reset the no-face counter.
onDetection_NoReset(s, frame, faceDetected) ==
    IF s.state = "Watching"
    THEN IF faceDetected
         THEN appendFrame([openWriter(s) EXCEPT !.state = "Recording"], frame)
         ELSE s
    ELSE IF s.state = "Recording"
    THEN IF faceDetected
         THEN appendFrame(s, frame)
         ELSE LET a == [appendFrame(s, frame)
                           EXCEPT !.consecutiveNoFaceFrames = @ + 1]
              IN IF a.consecutiveNoFaceFrames >= NoFaceThreshold
                 THEN [finalize(a) EXCEPT !.state = "Watching"]
                 ELSE a
    ELSE s

\* Mutant of onDetection: the recording is closed one no-face result late.
onDetection_LateClose(s, frame, faceDetected) ==
    IF s.state = "Watching"
    THEN IF faceDetected
         THEN appendFrame([openWriter(s) EXCEPT !.state = "Recording",
                                                !.consecutiveNoFaceFrames = 0],
                          frame)
         ELSE s
    ELSE IF s.state = "Recording"
    THEN IF faceDetected
         THEN [appendFrame(s, frame) EXCEPT !.consecutiveNoFaceFrames = 0]
         ELSE LET a == [appendFrame(s, frame)
                           EXCEPT !.consecutiveNoFaceFrames = @ + 1]
              IN IF a.consecutiveNoFaceFrames > NoFaceThreshold
                 THEN [finalize(a) EXCEPT !.state = "Watching"]
                 ELSE a
    ELSE s

\* The state machine's step on one detection result (section 4.1).
onDetection(s, frame, faceDetected) ==
    IF s.state = "Watching"
    THEN IF faceDetected
         THEN appendFrame([openWriter(s) EXCEPT !.state = "Recording",
                                                !.consecutiveNoFaceFrames = 0],
                          frame)
         ELSE s
    ELSE IF s.state = "Recording"
    THEN IF faceDetected
         THEN [appendFrame(s, frame) EXCEPT !.consecutiveNoFaceFrames = 0]
         ELSE LET a == [appendFrame(s, frame)
                           EXCEPT !.consecutiveNoFaceFrames = @ + 1]
              IN IF a.consecutiveNoFaceFrames >= NoFaceThreshold
                 THEN [finalize(a) EXCEPT !.state = "Watching"]
                 ELSE a
    ELSE s

\* The worker takes the oldest waiting frame to the detector.
takeFrame(s) == [s EXCEPT !.detecting = Head(s.queue), !.queue = Tail(s.queue)]

\* The detector answers, fails or times out: a failure counts as no face.
SCOutcomes == {"face", "noface", "fail"}

detected(s, outcome) ==
    [onDetection(s, s.detecting, outcome = "face")
        EXCEPT !.detecting = 0,
               !.results = Append(@, outcome)]

SCInBounds(s) ==
    /\ ~s.capped
    /\ s.frameSeq <= MaxFrames
    /\ s.stale <= MaxStale

SCStep(t) ==
    /\ SCInBounds(t)
    /\ sc' = t
    /\ UNCHANGED <<app, noFaceRun, recOrigin, closedBy, lastDetect, fr, plan, lib, sv, cam, bc, cp, ca, lg, cameraWanted>>

SC_Start ==
    /\ sc.state = "Idle"
    /\ SCStep(start(sc))

\* start() on a session that is active already
SC_StartAgain ==
    /\ sc.state # "Idle"
    /\ sc' = start(sc)
    /\ UNCHANGED <<app, noFaceRun, recOrigin, closedBy, lastDetect, fr, plan, lib, sv, cam, bc, cp, ca, lg, cameraWanted>>

SC_Stop ==
    /\ sc.state # "Idle"
    /\ SCStep(stop(sc))

SC_SubmitFrame == SCStep(submitFrame(sc))

SC_TakeFrame ==
    /\ sc.detecting = 0
    /\ sc.queue # <<>>
    /\ SCStep(takeFrame(sc))

SC_Detected ==
    /\ sc.detecting # 0
    /\ \E outcome \in SCOutcomes : SCStep(detected(sc, outcome))

\* The result of an abandoned detection arrives and is discarded.
SC_StaleDetected ==
    /\ sc.stale > 0
    /\ SCStep([sc EXCEPT !.stale = @ - 1])

\* A scripted run: the frames of plan are submitted as the queue has room, and
\* the detector answers each as plan says.
ScriptStep(t) ==
    /\ ~t.capped
    /\ sc' = t
    /\ UNCHANGED <<app, noFaceRun, recOrigin, closedBy, lastDetect, fr, plan, lib, sv, cam, bc, cp, ca, lg, cameraWanted>>

SC_ScriptSubmit ==
    /\ sc.frameSeq < Len(plan)
    /\ Len(sc.queue) < QueueBound
    /\ ScriptStep(submitFrame(sc))

SC_ScriptDetected ==
    /\ sc.detecting # 0
    /\ ScriptStep(detected(sc, IF plan[sc.detecting] THEN "face" ELSE "noface"))

SC_ScriptTakeFrame ==
    /\ sc.detecting = 0
    /\ sc.queue # <<>>
    /\ ScriptStep(takeFrame(sc))

\* ------------------------------------------- FaceRecordingApp: saving
\* The way of a recording of FaceRecordingApp from stop to the server, with
\* the camera held and recordings started and stopped by the manual button
\* or ended by stopCamera: startRecording and stopRecording seen with the
\* chunk list they share and the events mediaRecorder.stop() queues, then
\* ondataavailable, onstop, saveRecording and the upload.  A recorder is the
\* number of its construction; a chunk is the number of the recorder that
\* emitted it; a blob is a sequence of chunks.
SVInit(mime) ==
    [ stream |-> 1,
      isRecording |-> FALSE,
      mediaRecorder |-> 0,
      mimeSupported |-> mime,
      recNo |-> 0,               \* recorders constructed so far
      active |-> {},             \* recorders in state "recording"
      recordedChunks |-> <<>>,
      events |-> <<>>,           \* stopped recorders and the event each fires next
      uploads |-> <<>>,          \* POST /api/upload-recording under way
      catalog |-> <<>>,          \* server: the recordings stored
      listReqs |-> 0,            \* GET /api/recordings under way
      shown |-> 0,               \* the number of recordings in the list on screen
      saves |-> <<>>,            \* history: the recorders whose onstop ran, in order
      lastUpload |-> "none",     \* history: how the latest step's upload ended, if it ended one
      stopAgain |-> FALSE ]      \* history: stopCamera came after the recording was stopped

\* startRecording(), lines 244-276: the chunk list is replaced before the
\* constructor is tried.
startRecordingSV(s) ==
    IF s.stream = 0 \/ s.isRecording
    THEN s
    ELSE IF ~s.mimeSupported
    THEN [s EXCEPT !.recordedChunks = <<>>]
    ELSE [s EXCEPT !.recordedChunks = <<>>,
                   !.recNo = @ + 1,
                   !.mediaRecorder = s.recNo + 1,
                   !.active = @ \cup {s.recNo + 1},
                   !.isRecording = TRUE]

\* stopRecording(), lines 278-296: mediaRecorder.stop() makes the recorder
\* inactive and queues its dataavailable and stop events.
stopRecordingSV(s) ==
    IF ~s.isRecording \/ s.mediaRecorder = 0
    THEN s
    ELSE [s EXCEPT !.active = @ \ {s.mediaRecorder},
                   !.events = Append(@, [rec |-> s.mediaRecorder, kind |-> "data"]),
                   !.isRecording = FALSE]

\* toggleManualRecording()
toggleManualRecordingSV(s) ==
    IF s.isRecording THEN stopRecordingSV(s) ELSE startRecordingSV(s)

\* stopCamera(), lines 122-149, as far as recordings go
stopCameraSV(s) ==
    LET a == IF s.isRecording THEN stopRecordingSV(s) ELSE s
    IN [a EXCEPT !.stream = 0,
                 !.stopAgain = ~s.isRecording /\ s.recNo > 0]

\* saveRecording() up to its await, lines 298-311, called for recorder rec
saveRecording(s, rec) ==
    IF s.recordedChunks = <<>>
    THEN s
    ELSE [s EXCEPT !.uploads = Append(@, [of |-> rec,
                                          blob |-> s.recordedChunks,
                                          stage |-> "sent"])]

RemoveAt(q, k) ==
    [i \in 1..(Len(q) - 1) |-> IF i < k THEN q[i] ELSE q[i + 1]]

\* Mutant of ondataavailable: the recording is also saved on every chunk.
ondataavailable_SavesToo(s, k, hasData) ==
    LET a == [s EXCEPT !.recordedChunks = IF hasData THEN Append(@, s.events[k].rec) ELSE @,
                       !.events[k].kind = "stop"]
    IN saveRecording(a, s.events[k].rec)

\* mediaRecorder.ondataavailable, lines 253-257, for the k-th stopped recorder
ondataavailable(s, k, hasData) ==
    [s EXCEPT !.recordedChunks = IF hasData THEN Append(@, s.events[k].rec) ELSE @,
              !.events[k].kind = "stop"]

\* mediaRecorder.onstop, lines 259-261
onstop(s, k) ==
    saveRecording([s EXCEPT !.events = RemoveAt(@, k),
                            !.saves = Append(@, s.events[k].rec)],
                  s.events[k].rec)

\* loadRecordings() up to its await
loadRecordingsSV(s) == [s EXCEPT !.listReqs = @ + 1]

\* Mutant of saveRecordingResume: the list is refreshed and the recording
\* reported whatever the upload's outcome.
saveRecordingResume_IgnoresOutcome(s, k, ok) ==
    loadRecordingsSV([s EXCEPT !.uploads = RemoveAt(@, k),
                               !.lastUpload = "ok"])

\* saveRecording() after its await, lines 313-323: ok is false when the
\* answer is an error status or fetch rejected.
saveRecordingResume(s, k, ok) ==
    IF ok
    THEN loadRecordingsSV([s EXCEPT !.uploads = RemoveAt(@, k),
                                    !.lastUpload = "ok"])
    ELSE [s EXCEPT !.uploads = RemoveAt(@, k),
                   !.lastUpload = "failed"]

\* One task of the event loop or one answer of the server; lastUpload speaks
\* of the latest step only.
SVStep(t, ended) ==
    /\ t.recNo <= MaxRecordings
    /\ t.listReqs <= MaxLists
    /\ sv' = IF ended THEN t ELSE [t EXCEPT !.lastUpload = "none"]
    /\ UNCHANGED <<app, noFaceRun, recOrigin, closedBy, lastDetect, fr, sc, plan, lib, cam, bc, cp, ca, lg, cameraWanted>>

SV_ClickManualRecord ==
    /\ sv.stream # 0
    /\ SVStep(toggleManualRecordingSV(sv), FALSE)

SV_ClickStopCamera ==
    /\ sv.stream # 0
    /\ SVStep(stopCameraSV(sv), FALSE)

SV_DataAvailable ==
    \E k \in 1..Len(sv.events), hasData \in BOOLEAN :
        /\ sv.events[k].kind = "data"
        /\ SVStep(ondataavailable(sv, k, hasData), FALSE)

SV_Stop ==
    \E k \in 1..Len(sv.events) :
        /\ sv.events[k].kind = "stop"
        /\ SVStep(onstop(sv, k), FALSE)

\* The server stores the upload, or refuses it (an error status).
SV_UploadServed ==
    \E k \in 1..Len(sv.uploads) :
        /\ sv.uploads[k].stage = "sent"
        /\ \/ SVStep([sv EXCEPT !.uploads[k].stage = "stored",
                                !.catalog = Append(@, [of |-> sv.uploads[k].of,
                                                       blob |-> sv.uploads[k].blob])],
                     FALSE)
           \/ SVStep([sv EXCEPT !.uploads[k].stage = "refused"], FALSE)

SV_UploadOk ==
    \E k \in 1..Len(sv.uploads) :
        /\ sv.uploads[k].stage = "stored"
        /\ SVStep(saveRecordingResume(sv, k, TRUE), TRUE)

\* The answer is an error status, or the request never reached the server
\* and fetch rejects.
SV_UploadFailed ==
    \E k \in 1..Len(sv.uploads) :
        /\ sv.uploads[k].stage \in {"refused", "sent"}
        /\ SVStep(saveRecordingResume(sv, k, FALSE), TRUE)

SV_ListDelivered ==
    /\ sv.listReqs > 0
    /\ SVStep([sv EXCEPT !.listReqs = @ - 1, !.shown = Len(sv.catalog)], FALSE)

\* ---------------------------------------------- CameraPreview: frame capture
\* startFrameCapture() of CameraPreview.tsx with the camera on: captureFrame
\* runs on an interval, and each frame goes through canvas.toBlob and
\* blob.arrayBuffer() before webSocketService.sendFrame.  A frame is the number
\* of its capture.  The browser encodes and reads each blob on its own, in
\* parallel with the page: nothing orders the callbacks of two frames.  The
\* socket carries what it is given in the order given.
Captures == 1..MaxCaptures

CamInit ==
    [ isConnected |-> TRUE,      \* webSocketService.isConnected
      captured |-> 0,            \* frames drawn so far
      encoding |-> {},           \* frames given to canvas.toBlob
      reading |-> {},            \* blobs given to arrayBuffer()
      sent |-> <<>> ]            \* frames handed to the socket, in order

\* captureFrame(), lines 88-105, up to canvas.toBlob
captureFrameCam(s) ==
    IF ~s.isConnected
    THEN s
    ELSE [s EXCEPT !.captured = @ + 1,
                   !.encoding = @ \cup {s.captured + 1}]

\* The callback of canvas.toBlob, lines 98-104, for frame f; blob is null when
\* the canvas could not be encoded.
toBlobCallback(s, f, hasBlob) ==
    IF hasBlob /\ s.isConnected
    THEN [s EXCEPT !.encoding = @ \ {f}, !.reading = @ \cup {f}]
    ELSE [s EXCEPT !.encoding = @ \ {f}]

\* webSocketService.sendFrame(buffer): the frame is sent while connected.
sendFrame(s, f) ==
    IF s.isConnected
    THEN [s EXCEPT !.sent = Append(@, f)]
    ELSE s

\* The continuation of blob.arrayBuffer(), lines 100-102, for frame f
arrayBufferThen(s, f) == sendFrame([s EXCEPT !.reading = @ \ {f}], f)

CamStep(t) ==
    /\ t.captured <= MaxCaptures
    /\ cam' = t
    /\ UNCHANGED <<app, noFaceRun, recOrigin, closedBy, lastDetect, fr, sc, plan, lib, sv, bc, cp, ca, lg, cameraWanted>>

\* setInterval(captureFrame, 1000 / 15), line 108
Cam_IntervalTick == CamStep(captureFrameCam(cam))

Cam_ToBlobDone ==
    \E f \in cam.encoding, hasBlob \in BOOLEAN :
        CamStep(toBlobCallback(cam, f, hasBlob))

Cam_ArrayBufferDone ==
    \E f \in cam.reading : CamStep(arrayBufferThen(cam, f))

\* The socket opens or closes.
Cam_ConnectionChange == CamStep([cam EXCEPT !.isConnected = ~@])

\* --------------------------------------------------------- StatusBroadcaster
\* The push channel of status events (specification section 4.4): publish
\* hands every event to every subscriber connected at that moment; a
\* subscriber whose buffer is full is dropped with a terminal "disconnected"
\* event.  An event is its number in the order of publication.  On the client
\* (Index.tsx, lines 76-95) a subscriber is a page whose effect has connected
\* and registered its handler, which takes the messages of its socket one by
\* one.
Subscribers == 1..MaxSubscribers

BCInit ==
    [ connected |-> {},                               \* subscribers connected now
      published |-> 0,                                \* events published so far
      joinedAt |-> [u \in Subscribers |-> 0],         \* events published before u connected
      buffer |-> [u \in Subscribers |-> <<>>],        \* events waiting to be taken by u
      received |-> [u \in Subscribers |-> <<>>],      \* events u's handler has seen
      terminal |-> {} ]                               \* subscribers told "disconnected"

\* subscribe(): a subscriber connects and sees the events published from now on.
subscribe(s, u) ==
    [s EXCEPT !.connected = @ \cup {u},
              !.joinedAt[u] = s.published,
              !.buffer[u] = <<>>,
              !.received[u] = <<>>,
              !.terminal = @ \ {u}]

\* The subscriber disconnects (the cleanup of the effect, lines 90-94).
unsubscribe(s, u) ==
    [s EXCEPT !.connected = @ \ {u}, !.buffer[u] = <<>>]

\* Mutant of publish: the event goes to one subscriber only, the one with the
\* shortest buffer, as a work queue would hand it out.
publish_WorkQueue(s) ==
    LET e == s.published + 1
        one == IF s.connected = {} THEN {}
               ELSE {CHOOSE u \in s.connected :
                        \A v \in s.connected :
                           \/ Len(s.buffer[u]) < Len(s.buffer[v])
                           \/ Len(s.buffer[u]) = Len(s.buffer[v]) /\ u <= v}
    IN [s EXCEPT !.published = e,
                 !.buffer = [u \in Subscribers |->
                                IF u \in one THEN Append(s.buffer[u], e)
                                ELSE s.buffer[u]]]

\* publish(event): broadcast; a subscriber with a full buffer is dropped and
\* told so.
publish(s) ==
    LET e == s.published + 1
        slow == {u \in s.connected : Len(s.buffer[u]) >= BufferBound}
    IN [s EXCEPT !.published = e,
                 !.connected = @ \ slow,
                 !.terminal = @ \cup slow,
                 !.buffer = [u \in Subscribers |->
                                IF u \in s.connected \ slow
                                THEN Append(s.buffer[u], e)
                                ELSE <<>>]]

\* handleWebSocketMessage, lines 50-56, on the oldest message waiting for u
handleWebSocketMessage(s, u) ==
    [s EXCEPT !.received[u] = Append(@, Head(s.buffer[u])),
              !.buffer[u] = Tail(@)]

BCStep(t) ==
    /\ t.published <= MaxEvents
    /\ bc' = t
    /\ UNCHANGED <<app, noFaceRun, recOrigin, closedBy, lastDetect, fr, sc, plan, lib, sv, cam, cp, ca, lg, cameraWanted>>

BC_Subscribe ==
    \E u \in Subscribers \ bc.connected : BCStep(subscribe(bc, u))

BC_Unsubscribe ==
    \E u \in bc.connected : BCStep(unsubscribe(bc, u))

BC_Publish == BCStep(publish(bc))

BC_Message ==
    \E u \in bc.connected :
        /\ bc.buffer[u] # <<>>
        /\ BCStep(handleWebSocketMessage(bc, u))

\* ------------------------------------------------------- RecordingLibrary
\* The React recordings list (RecordingLibrary.tsx) and the server's files it
\* asks for.  A file is a number, a newer file a larger one; the server lists
\* newest first.  A request is answered by the server in one step and its
\* answer reaches the component in a later one.
Files == 1..MaxFiles

\* Mutant of NewestFirst: the files are listed oldest first.
RECURSIVE NewestFirst_OldestFirst(_)
NewestFirst_OldestFirst(S) ==
    IF S = {}
    THEN <<>>
    ELSE LET low == CHOOSE f \in S : \A g \in S : f <= g
         IN <<low>> \o NewestFirst_OldestFirst(S \ {low})

\* The catalog's list() (specification section 4.3): the files stored, newest
\* first.
RECURSIVE NewestFirst(_)
NewestFirst(S) ==
    IF S = {}
    THEN <<>>
    ELSE LET top == CHOOSE f \in S : \A g \in S : g <= f
         IN <<top>> \o NewestFirst(S \ {top})

\* loadRecordings(), lines 38-49: each row gets its index in the answer as id.
formattedRecordings(answer) ==
    [i \in 1..Len(answer) |-> [id |-> i - 1, filename |-> answer[i]]]

\* prev.filter(r => r.id !== id), line 106
RECURSIVE FilterOutId(_, _)
FilterOutId(rows, id) ==
    IF rows = <<>>
    THEN <<>>
    ELSE IF Head(rows).id = id
    THEN FilterOutId(Tail(rows), id)
    ELSE <<Head(rows)>> \o FilterOutId(Tail(rows), id)

\* The component once mounted: useEffect has called loadRecordings().
LibInit(n) ==
    [ recordings |-> <<>>,
      isLoading |-> TRUE,
      listReq |-> [stage |-> "sent", answer |-> <<>>],
      deleteReqs |-> <<>>,      \* DELETE requests under way: the row, and the stage
      files |-> 1..n,           \* server: the recordings stored
      created |-> n,            \* server: the recordings ever stored
      deleted |-> {} ]          \* history: files whose handleDelete ended in success

\* loadRecordings() up to its await
loadRecordings(s) ==
    [s EXCEPT !.isLoading = TRUE,
              !.listReq = [stage |-> "sent", answer |-> <<>>]]

\* loadRecordings() after its await: the answer is shown, or the error is
\* toasted; finally isLoading is lowered.
loadRecordingsResume(s) ==
    [s EXCEPT !.recordings = IF s.listReq.stage = "answered"
                             THEN formattedRecordings(s.listReq.answer)
                             ELSE @,
              !.isLoading = FALSE,
              !.listReq = [stage |-> "none", answer |-> <<>>]]

\* handleDelete() up to its await, the confirm dialog accepted
handleDelete(s, row) ==
    [s EXCEPT !.deleteReqs = Append(@, [row |-> row, stage |-> "sent"])]

\* Mutant of handleDeleteResume: the row is taken off the list whatever the
\* server answered.
handleDeleteResume_RemovesAnyway(s, k) ==
    LET req == s.deleteReqs[k]
        rest == [i \in 1..(Len(s.deleteReqs) - 1) |->
                    IF i < k THEN s.deleteReqs[i] ELSE s.deleteReqs[i + 1]]
    IN IF req.stage = "ok"
       THEN [s EXCEPT !.recordings = FilterOutId(@, req.row.id),
                      !.deleted = @ \cup {req.row.filename},
                      !.deleteReqs = rest]
       ELSE [s EXCEPT !.recordings = FilterOutId(@, req.row.id),
                      !.deleteReqs = rest]

\* handleDelete() after its await, for the request at position k
handleDeleteResume(s, k) ==
    LET req == s.deleteReqs[k]
        rest == [i \in 1..(Len(s.deleteReqs) - 1) |->
                    IF i < k THEN s.deleteReqs[i] ELSE s.deleteReqs[i + 1]]
    IN IF req.stage = "ok"
       THEN [s EXCEPT !.recordings = FilterOutId(@, req.row.id),
                      !.deleted = @ \cup {req.row.filename},
                      !.deleteReqs = rest]
       ELSE [s EXCEPT !.deleteReqs = rest]

\* The catalog's delete(filename) (specification section 4.3): the file and
\* its entry are removed, or the call fails with NotFound and removes nothing.
catalogDelete(files, f) ==
    IF f \in files
    THEN [files |-> files \ {f}, status |-> "ok"]
    ELSE [files |-> files, status |-> "failed"]

LibStep(t) ==
    /\ Len(t.deleteReqs) <= MaxDeletes
    /\ t.created <= MaxFiles
    /\ lib' = t
    /\ UNCHANGED <<app, noFaceRun, recOrigin, closedBy, lastDetect, fr, sc, plan, sv, cam, bc, cp, ca, lg, cameraWanted>>

Lib_ClickRefresh ==
    /\ ~lib.isLoading
    /\ LibStep(loadRecordings(lib))

\* GET /recordings is answered with the files stored now, or with an error.
Lib_ListServed ==
    /\ lib.listReq.stage = "sent"
    /\ \/ LibStep([lib EXCEPT !.listReq = [stage |-> "answered",
                                           answer |-> NewestFirst(lib.files)]])
       \/ LibStep([lib EXCEPT !.listReq = [stage |-> "failed", answer |-> <<>>]])

Lib_ListDelivered ==
    /\ lib.listReq.stage \in {"answered", "failed"}
    /\ LibStep(loadRecordingsResume(lib))

\* The rows are on screen only while isLoading is false.
Lib_ClickDelete ==
    /\ ~lib.isLoading
    /\ \E i \in 1..Len(lib.recordings) : LibStep(handleDelete(lib, lib.recordings[i]))

\* DELETE /recordings/f is answered: the file is removed, or it is not found.
Lib_DeleteServed ==
    \E k \in 1..Len(lib.deleteReqs) :
        /\ lib.deleteReqs[k].stage = "sent"
        /\ LET r == catalogDelete(lib.files, lib.deleteReqs[k].row.filename)
           IN LibStep([lib EXCEPT !.files = r.files,
                                  !.deleteReqs[k].stage = r.status])

Lib_DeleteDelivered ==
    \E k \in 1..Len(lib.deleteReqs) :
        /\ lib.deleteReqs[k].stage \in {"ok", "failed"}
        /\ LibStep(handleDeleteResume(lib, k))

\* A session finishes a recording: the server stores a new file.
Lib_ServerCreate ==
    LibStep([lib EXCEPT !.created = @ + 1, !.files = @ \cup {lib.created + 1}])

(***************************************************************************)
(* CameraPreview: camera and capture lifecycle (CameraPreview.tsx).  The   *)
(* component's state is what its latest render saw; effStream and          *)
(* effFrameCapture are the values of stream and frameCapture the functions  *)
(* of the effect in force closed over: the effect runs again only when     *)
(* isDetectionActive changes.  Streams and intervals are numbered in the    *)
(* order they are created, 0 is null.                                       *)
(***************************************************************************)

MaxPending == 2
MaxIntervals == 2

\* The component once mounted with isDetectionActive false: the effect has
\* called stopCamera(), which found nothing to stop.
CPInit ==
    [ mounted |-> TRUE,
      isDetectionActive |-> FALSE,
      stream |-> 0,
      hasPermission |-> "null",
      frameCapture |-> 0,
      effStream |-> 0,
      effFrameCapture |-> 0,
      videoSrc |-> 0,           \* srcObject of the <video> element, 0 without one
      metaPending |-> FALSE,    \* the element has yet to fire loadedmetadata
      gumPending |-> 0,         \* startCamera calls awaiting getUserMedia
      liveStreams |-> {},       \* browser: streams whose track is live
      intervals |-> {},         \* browser: intervals that are running
      streams |-> 0,            \* browser: streams ever handed out
      timers |-> 0 ]            \* browser: intervals ever set

\* videoRef.current is set: the <video> element is rendered.
VideoRendered(s) ==
    s.mounted /\ s.isDetectionActive /\ s.hasPermission = "granted"

\* A render is committed: a <video> element that was not on the page before
\* is a new one, and one taken off the page is gone.
CommitRender(old, new) ==
    IF VideoRendered(old) /\ VideoRendered(new)
    THEN new
    ELSE [new EXCEPT !.videoSrc = 0, !.metaPending = FALSE]

\* stopCamera of the render that saw stream = st and frameCapture = fc.
stopCameraCP(s, st, fc) ==
    LET a == IF fc # 0
             THEN [s EXCEPT !.intervals = @ \ {fc}, !.frameCapture = 0]
             ELSE s
        b == IF st # 0
             THEN [a EXCEPT !.liveStreams = @ \ {st}, !.stream = 0]
             ELSE a
    IN IF VideoRendered(b)
       THEN [b EXCEPT !.videoSrc = 0, !.metaPending = FALSE]
       ELSE b

\* isDetectionActive changes: the render is committed, the cleanup of the
\* effect in force runs with the functions that effect closed over, then the
\* effect runs with the functions of this render.
useEffect(s, active) ==
    LET r == CommitRender(s, [s EXCEPT !.isDetectionActive = active])
        c == stopCameraCP(r, s.effStream, s.effFrameCapture)
        e == IF active
             THEN [c EXCEPT !.gumPending = @ + 1]
             ELSE stopCameraCP(c, r.stream, r.frameCapture)
    IN [e EXCEPT !.effStream = r.stream, !.effFrameCapture = r.frameCapture]

\* The component is taken off the page: only the cleanup of the effect in
\* force runs, and the component's state is discarded.
unmount(s) ==
    LET r == CommitRender(s, [s EXCEPT !.mounted = FALSE])
        c == stopCameraCP(r, s.effStream, s.effFrameCapture)
    IN [c EXCEPT !.isDetectionActive = FALSE,
                 !.stream = 0,
                 !.hasPermission = "null",
                 !.frameCapture = 0,
                 !.effStream = 0,
                 !.effFrameCapture = 0]

\* startCamera goes on after getUserMedia resolved.  The state setters of a
\* component that is off the page do nothing.
startCameraCPResume(s) ==
    LET n == s.streams + 1
        a == [s EXCEPT !.gumPending = @ - 1,
                       !.streams = n,
                       !.liveStreams = @ \cup {n},
                       !.videoSrc = IF VideoRendered(s) THEN n ELSE @,
                       !.metaPending = IF VideoRendered(s) THEN TRUE ELSE @]
    IN IF s.mounted
       THEN CommitRender(a, [a EXCEPT !.stream = n, !.hasPermission = "granted"])
       ELSE a

\* startCamera goes to its catch after getUserMedia rejected.
startCameraCPCatch(s) ==
    LET a == [s EXCEPT !.gumPending = @ - 1]
    IN IF s.mounted
       THEN CommitRender(a, [a EXCEPT !.hasPermission = "denied"])
       ELSE a

\* startFrameCapture, called by onloadedmetadata of the <video> element.
startFrameCapture(s) ==
    LET n == s.timers + 1
    IN [s EXCEPT !.timers = n,
                 !.intervals = @ \cup {n},
                 !.frameCapture = n,
                 !.metaPending = FALSE]

CPStep(t) ==
    /\ t.gumPending <= MaxPending
    /\ t.streams <= MaxStreams
    /\ t.timers <= MaxIntervals
    /\ cp' = t
    /\ UNCHANGED <<app, noFaceRun, recOrigin, closedBy, lastDetect, fr, sc, plan, lib, sv, cam, bc, ca, lg, cameraWanted>>

\* The page switches detection on or off.
CP_DetectionToggle ==
    /\ cp.mounted
    /\ CPStep(useEffect(cp, ~cp.isDetectionActive))

CP_Unmount ==
    /\ cp.mounted
    /\ CPStep(unmount(cp))

CP_GetUserMediaResolve ==
    /\ cp.gumPending > 0
    /\ CPStep(startCameraCPResume(cp))

CP_GetUserMediaReject ==
    /\ cp.gumPending > 0
    /\ CPStep(startCameraCPCatch(cp))

CP_LoadedMetadata ==
    /\ VideoRendered(cp)
    /\ cp.metaPending
    /\ CPStep(startFrameCapture(cp))

(***************************************************************************)
(* FaceRecordingApp.log and clearLogs (static/app.js).  The log container  *)
(* is the sequence of its child nodes: 0 is a text node of the page's      *)
(* markup, n > 0 is the entry element of the n-th call of log.             *)
(***************************************************************************)

\* `while (this.logContainer.children.length > 100)`
LogLimit == 100

MaxLogs == 103

\* logContainer.children: the element children, text nodes left out.
Children(nodes) == SelectSeq(nodes, LAMBDA x : x # 0)

\* The constructor has logged 'Application initialized'.
LGInit(hasText) ==
    [nodes  |-> (IF hasText THEN <<0>> ELSE <<>>) \o <<1>>,
     logged |-> 1]

\* Mutant of TrimLog: the last child node is removed instead of the first.
RECURSIVE TrimLog_DropsNewest(_)
TrimLog_DropsNewest(nodes) ==
    IF Len(Children(nodes)) > LogLimit
    THEN TrimLog_DropsNewest(SubSeq(nodes, 1, Len(nodes) - 1))
    ELSE nodes

\* The loop of log: the first child node is removed while more than
\* LogLimit element children are left.
RECURSIVE TrimLog(_)
TrimLog(nodes) ==
    IF Len(Children(nodes)) > LogLimit THEN TrimLog(Tail(nodes)) ELSE nodes

log(s) ==
    [s EXCEPT !.logged = @ + 1,
              !.nodes  = TrimLog(Append(s.nodes, s.logged + 1))]

clearLogs(s) == log([s EXCEPT !.nodes = <<>>])

LGStep(t) ==
    /\ t.logged <= MaxLogs
    /\ lg' = t
    /\ UNCHANGED <<app, noFaceRun, recOrigin, closedBy, lastDetect, fr, sc, plan, lib, sv, cam, bc, cp, ca, cameraWanted>>

\* Any of the application's handlers logs a line.
LG_Log == LGStep(log(lg))

LG_ClickClearLogs == LGStep(clearLogs(lg))


(***************************************************************************)
(* FaceRecordingApp.clearAllRecordings (static/app.js).  Every call is a   *)
(* record: where it stands, the list GET /api/recordings answered, the     *)
(* answers of the DELETE requests it has awaited, and what it logged.      *)
(***************************************************************************)

MaxClears == 2

CAInit(n) ==
    [ calls |-> <<>>,
      files |-> 1..n ]          \* server: the recordings stored

\* The click on Clear All: confirm() is answered, and GET /api/recordings is
\* sent when it was accepted.
clearAllRecordings(s, confirmed) ==
    IF ~confirmed
    THEN s
    ELSE [s EXCEPT !.calls = Append(@, [stage   |-> "listing",
                                        listed  |-> <<>>,
                                        answers |-> <<>>,
                                        message |-> "none"])]

\* The call goes on after a DELETE was answered, or after the list arrived:
\* the next DELETE is sent, or the loop is over and success is logged.
clearAllLoop(c) ==
    IF Len(c.answers) < Len(c.listed)
    THEN [c EXCEPT !.stage = "deleting"]
    ELSE [c EXCEPT !.stage = "done", !.message = "All recordings cleared"]

\* await fetch('/api/recordings') settles.
clearAllListResume(s, k, outcome) ==
    CASE outcome = "ok" ->
           [s EXCEPT !.calls[k] =
                clearAllLoop([s.calls[k] EXCEPT !.listed = NewestFirst(s.files)])]
      [] outcome = "notok" ->
           [s EXCEPT !.calls[k].stage = "done"]
      [] OTHER ->
           [s EXCEPT !.calls[k].stage = "done",
                     !.calls[k].message = "Failed to clear recordings"]

\* await fetch(DELETE) settles.  The server removed the file ("ok"), did not
\* find it ("failed"), answered with a server error ("error"), or the request
\* never got an answer ("rejected").  Only a rejection ends the loop.
clearAllDeleteResume(s, k, outcome) ==
    LET c == s.calls[k]
        f == c.listed[Len(c.answers) + 1]
        r == catalogDelete(s.files, f)
    IN CASE outcome = "served" ->
              [s EXCEPT !.files = r.files,
                        !.calls[k] = clearAllLoop([c EXCEPT !.answers = Append(@, r.status)])]
         [] outcome = "error" ->
              [s EXCEPT !.calls[k] = clearAllLoop([c EXCEPT !.answers = Append(@, "error")])]
         [] OTHER ->
              [s EXCEPT !.calls[k].stage = "done",
                        !.calls[k].message = "Failed to clear recordings"]

CAStep(t) ==
    /\ Len(t.calls) <= MaxClears
    /\ ca' = t
    /\ UNCHANGED <<app, noFaceRun, recOrigin, closedBy, lastDetect, fr, sc, plan, lib, sv, cam, bc, cp, lg, cameraWanted>>

CA_ClickClearAll ==
    \E confirmed \in BOOLEAN : CAStep(clearAllRecordings(ca, confirmed))

CA_ListSettle ==
    \E k \in 1..Len(ca.calls), outcome \in {"ok", "notok", "rejected"} :
        /\ ca.calls[k].stage = "listing"
        /\ CAStep(clearAllListResume(ca, k, outcome))

CA_DeleteSettle ==
    \E k \in 1..Len(ca.calls), outcome \in {"served", "error", "rejected"} :
        /\ ca.calls[k].stage = "deleting"
        /\ CAStep(clearAllDeleteResume(ca, k, outcome))

\* deleteRecording of one row, confirmed and served: the file is removed.
CA_DeleteRecordingServed ==
    \E f \in ca.files : CAStep([ca EXCEPT !.files = catalogDelete(ca.files, f).files])

InitPreview ==
    /\ app = AppInit(TRUE, TRUE, TRUE)
    /\ noFaceRun = 0
    /\ recOrigin = "none"
    /\ closedBy = "none"
    /\ lastDetect = "none"
    /\ fr = FRInit(TRUE)
    /\ sc = SCInit
    /\ plan = <<>>
    /\ lib = LibInit(0)
    /\ sv = SVInit(TRUE)
    /\ cam = CamInit
    /\ bc = BCInit
    /\ cp = CPInit
    /\ ca = CAInit(0)
    /\ lg = LGInit(FALSE)
    /\ cameraWanted = "unobserved"

NextPreview ==
    \/ CP_DetectionToggle
    \/ CP_Unmount
    \/ CP_GetUserMediaResolve
    \/ CP_GetUserMediaReject
    \/ CP_LoadedMetadata

SpecPreview == InitPreview /\ [][NextPreview]_vars

InitClear ==
    /\ app = AppInit(TRUE, TRUE, TRUE)
    /\ noFaceRun = 0
    /\ recOrigin = "none"
    /\ closedBy = "none"
    /\ lastDetect = "none"
    /\ fr = FRInit(TRUE)
    /\ sc = SCInit
    /\ plan = <<>>
    /\ lib = LibInit(0)
    /\ sv = SVInit(TRUE)
    /\ cam = CamInit
    /\ bc = BCInit
    /\ cp = CPInit
    /\ \E n \in 0..MaxFiles : ca = CAInit(n)
    /\ lg = LGInit(FALSE)
    /\ cameraWanted = "unobserved"

NextClear ==
    \/ CA_ClickClearAll
    \/ CA_ListSettle
    \/ CA_DeleteSettle
    \/ CA_DeleteRecordingServed

SpecClear == InitClear /\ [][NextClear]_vars

InitLog ==
    /\ app = AppInit(TRUE, TRUE, TRUE)
    /\ noFaceRun = 0
    /\ recOrigin = "none"
    /\ closedBy = "none"
    /\ lastDetect = "none"
    /\ fr = FRInit(TRUE)
    /\ sc = SCInit
    /\ plan = <<>>
    /\ lib = LibInit(0)
    /\ sv = SVInit(TRUE)
    /\ cam = CamInit
    /\ bc = BCInit
    /\ cp = CPInit
    /\ ca = CAInit(0)
    /\ \E hasText \in BOOLEAN : lg = LGInit(hasText)
    /\ cameraWanted = "unobserved"

NextLog ==
    \/ LG_Log
    \/ LG_ClickClearLogs

SpecLog == InitLog /\ [][NextLog]_vars

InitLib ==
    /\ app = AppInit(TRUE, TRUE, TRUE)
    /\ noFaceRun = 0
    /\ recOrigin = "none"
    /\ closedBy = "none"
    /\ lastDetect = "none"
    /\ fr = FRInit(TRUE)
    /\ sc = SCInit
    /\ plan = <<>>
    /\ \E n \in 0..(MaxFiles - 1) : lib = LibInit(n)
    /\ sv = SVInit(TRUE)
    /\ cam = CamInit
    /\ bc = BCInit
    /\ cp = CPInit
    /\ ca = CAInit(0)
    /\ lg = LGInit(FALSE)
    /\ cameraWanted = "unobserved"

NextLib ==
    \/ Lib_ClickRefresh
    \/ Lib_ListServed
    \/ Lib_ListDelivered
    \/ Lib_ClickDelete
    \/ Lib_DeleteServed
    \/ Lib_DeleteDelivered
    \/ Lib_ServerCreate

SpecLib == InitLib /\ [][NextLib]_vars

InitSave ==
    /\ app = AppInit(TRUE, TRUE, TRUE)
    /\ noFaceRun = 0
    /\ recOrigin = "none"
    /\ closedBy = "none"
    /\ lastDetect = "none"
    /\ fr = FRInit(TRUE)
    /\ sc = SCInit
    /\ plan = <<>>
    /\ lib = LibInit(0)
    /\ \E mime \in BOOLEAN : sv = SVInit(mime)
    /\ cam = CamInit
    /\ bc = BCInit
    /\ cp = CPInit
    /\ ca = CAInit(0)
    /\ lg = LGInit(FALSE)
    /\ cameraWanted = "unobserved"

NextSave ==
    \/ SV_ClickManualRecord
    \/ SV_ClickStopCamera
    \/ SV_DataAvailable
    \/ SV_Stop
    \/ SV_UploadServed
    \/ SV_UploadOk
    \/ SV_UploadFailed
    \/ SV_ListDelivered

SpecSave == InitSave /\ [][NextSave]_vars

InitApp ==
    /\ \E stopDis \in BOOLEAN, manDis \in BOOLEAN, mime \in BOOLEAN :
          app = AppInit(stopDis, manDis, mime)
    /\ noFaceRun = 0
    /\ recOrigin = "none"
    /\ closedBy = "none"
    /\ lastDetect = "none"
    /\ sc = SCInit
    /\ plan = <<>>
    /\ lib = LibInit(0)
    /\ sv = SVInit(TRUE)
    /\ cam = CamInit
    /\ bc = BCInit
    /\ cp = CPInit
    /\ ca = CAInit(0)
    /\ lg = LGInit(FALSE)

Init ==
    /\ InitApp
    /\ fr = FRInit(TRUE)
    /\ cameraWanted = "unobserved"

\* FaceRecordingApp with the user's camera commands followed.
InitConsent ==
    /\ InitApp
    /\ fr = FRInit(TRUE)
    /\ cameraWanted = "stop"

InitFR ==
    /\ app = AppInit(TRUE, TRUE, TRUE)
    /\ noFaceRun = 0
    /\ recOrigin = "none"
    /\ closedBy = "none"
    /\ lastDetect = "none"
    /\ sc = SCInit
    /\ plan = <<>>
    /\ lib = LibInit(0)
    /\ sv = SVInit(TRUE)
    /\ cam = CamInit
    /\ bc = BCInit
    /\ cp = CPInit
    /\ ca = CAInit(0)
    /\ lg = LGInit(FALSE)
    /\ cameraWanted = "unobserved"
    /\ \E stopDis \in BOOLEAN : fr = FRInit(stopDis)

NextFR ==
    \/ FR_ClickStart
    \/ FR_GetUserMediaResolve
    \/ FR_GetUserMediaReject
    \/ FR_StartPostSettle
    \/ FR_ClickStop
    \/ FR_StopPostFulfilled
    \/ FR_StopPostRejected
    \/ FR_SocketOpen
    \/ FR_SocketMessage
    \/ FR_SocketError
    \/ FR_SocketDrop
    \/ FR_SocketClose
    \/ FR_AnimationFrame

SpecFR == InitFR /\ [][NextFR]_vars

\* FaceRecorder with the scheduling the browser gives: a task that is queued
\* runs, and a request that was sent settles, one way or the other.  Nothing
\* makes the user click.
FRFairness ==
    /\ WF_vars(FR_GetUserMediaResolve \/ FR_GetUserMediaReject)
    /\ WF_vars(FR_StartPostSettle)
    /\ WF_vars(FR_StopPostSettle)
    /\ WF_vars(FR_SocketClose)
    /\ WF_vars(FR_AnimationFrame)

SpecFRLive == InitFR /\ [][NextFR]_vars /\ FRFairness

\* SessionController under any client: frames, start and stop at any time.
InitSC ==
    /\ app = AppInit(TRUE, TRUE, TRUE)
    /\ noFaceRun = 0
    /\ recOrigin = "none"
    /\ closedBy = "none"
    /\ lastDetect = "none"
    /\ fr = FRInit(TRUE)
    /\ sc = SCInit
    /\ plan = <<>>
    /\ lib = LibInit(0)
    /\ sv = SVInit(TRUE)
    /\ cam = CamInit
    /\ bc = BCInit
    /\ cp = CPInit
    /\ ca = CAInit(0)
    /\ lg = LGInit(FALSE)
    /\ cameraWanted = "unobserved"

NextSC ==
    \/ SC_Start
    \/ SC_StartAgain
    \/ SC_Stop
    \/ SC_SubmitFrame
    \/ SC_TakeFrame
    \/ SC_Detected
    \/ SC_StaleDetected

SpecSC == InitSC /\ [][NextSC]_vars

\* SessionController on a scripted run: a session just started, and a sequence
\* of detection results as long as Scenario.
Scenario == <<FALSE, FALSE, TRUE, TRUE, FALSE, FALSE, FALSE, FALSE, FALSE>>

InitScript ==
    /\ app = AppInit(TRUE, TRUE, TRUE)
    /\ noFaceRun = 0
    /\ recOrigin = "none"
    /\ closedBy = "none"
    /\ lastDetect = "none"
    /\ fr = FRInit(TRUE)
    /\ sc = start(SCInit)
    /\ plan \in [1..Len(Scenario) -> BOOLEAN]
    /\ lib = LibInit(0)
    /\ sv = SVInit(TRUE)
    /\ cam = CamInit
    /\ bc = BCInit
    /\ cp = CPInit
    /\ ca = CAInit(0)
    /\ lg = LGInit(FALSE)
    /\ cameraWanted = "unobserved"

NextScript ==
    \/ SC_ScriptSubmit
    \/ SC_ScriptTakeFrame
    \/ SC_ScriptDetected

SpecScript == InitScript /\ [][NextScript]_vars

\* CameraPreview with the camera on and the capture interval running.
InitCam ==
    /\ app = AppInit(TRUE, TRUE, TRUE)
    /\ noFaceRun = 0
    /\ recOrigin = "none"
    /\ closedBy = "none"
    /\ lastDetect = "none"
    /\ fr = FRInit(TRUE)
    /\ sc = SCInit
    /\ plan = <<>>
    /\ lib = LibInit(0)
    /\ sv = SVInit(TRUE)
    /\ cam = CamInit
    /\ bc = BCInit
    /\ cp = CPInit
    /\ ca = CAInit(0)
    /\ lg = LGInit(FALSE)
    /\ cameraWanted = "unobserved"

NextCam ==
    \/ Cam_IntervalTick
    \/ Cam_ToBlobDone
    \/ Cam_ArrayBufferDone
    \/ Cam_ConnectionChange

SpecCam == InitCam /\ [][NextCam]_vars

\* StatusBroadcaster with subscribers that come and go.
InitBC ==
    /\ app = AppInit(TRUE, TRUE, TRUE)
    /\ noFaceRun = 0
    /\ recOrigin = "none"
    /\ closedBy = "none"
    /\ lastDetect = "none"
    /\ fr = FRInit(TRUE)
    /\ sc = SCInit
    /\ plan = <<>>
    /\ lib = LibInit(0)
    /\ sv = SVInit(TRUE)
    /\ cam = CamInit
    /\ bc = BCInit
    /\ cp = CPInit
    /\ ca = CAInit(0)
    /\ lg = LGInit(FALSE)
    /\ cameraWanted = "unobserved"

NextBC ==
    \/ BC_Subscribe
    \/ BC_Unsubscribe
    \/ BC_Publish
    \/ BC_Message

SpecBC == InitBC /\ [][NextBC]_vars

Next ==
    \/ ClickStartCamera
    \/ GetUserMediaResolve
    \/ GetUserMediaReject
    \/ LoadedMetadata
    \/ ClickStopCamera
    \/ ClickManualRecord
    \/ ChangeDetectionInterval
    \/ ToggleAutoRecord
    \/ RestartTimerFire
    \/ DetectResponse
    \/ DetectionTimerFire
    \/ OrphanDetectionTimerFire
    \/ RecordingTimerFire
    \/ OrphanRecordingTimerFire

Spec == Init /\ [][Next]_vars

SpecConsent == InitConsent /\ [][Next]_vars

\* ----------------------------------------------------------------- claims
OpenRecorders(s) == {r \in Recorders : s.recorders[r] = "recording"}

\* The session is watching: the camera is held, detection runs, auto-record
\* is on and no recording is open.
Watching(s) ==
    /\ s.stream # 0
    /\ s.faceDetectionActive
    /\ s.autoRecord
    /\ ~s.isRecording

\* C1: a recording opened by detection is closed only after NoFaceThreshold
\* no-face results in a row, or by an explicit stop (the manual toggle or
\* stopCamera); it is never closed earlier.
C1_ClosedOnlyAfterNoFaceRun ==
    [][ (recOrigin = "detect" /\ app.isRecording /\ ~app'.isRecording)
          => (\/ noFaceRun >= NoFaceThreshold
              \/ ClickStopCamera
              \/ ClickManualRecord) ]_vars

\* C2: in a watching session (on a browser that can record) a detection
\* result of true opens a recording in the same step.
C2_FaceOpensRecording ==
    [][ (Watching(app) /\ app.mimeSupported /\ DetectResult("face"))
          => app'.isRecording ]_vars

\* C3: at most one MediaRecorder is recording at any time.
C3_AtMostOneRecorder == Cardinality(OpenRecorders(app)) <= 1

\* C3 witness: a recording is open while a detection request is in flight
\* whose answer would be a rising edge.
C3_Witness ==
    /\ Cardinality(OpenRecorders(app)) = 1
    /\ app.inflight > 0
    /\ app.autoRecord
    /\ ~app.lastFaceDetected

\* C4: isRecording holds exactly when the app holds a recorder that is recording.
C4_RecordingIffWriterOpen ==
    app.isRecording <=>
        (app.mediaRecorder # 0 /\ app.recorders[app.mediaRecorder] = "recording")

\* C4 witness: a recording was opened by detection and closed again by its
\* timer, and the camera is still held.
C4_Witness ==
    /\ ~app.isRecording
    /\ app.mediaRecorder # 0
    /\ closedBy = "timer"
    /\ app.stream # 0

\* C5: stopCamera while a recording is open and its no-face run is below the
\* threshold closes the recording in that same step.
C5_StopFinalizesAtOnce ==
    [][ (app.isRecording /\ noFaceRun < NoFaceThreshold /\ ClickStopCamera)
          => (~app'.isRecording /\ OpenRecorders(app') = {}) ]_vars

\* C5 witness: the camera was stopped on a recording whose no-face run was 1.
C5_Witness ==
    /\ closedBy = "stop"
    /\ noFaceRun = 1
    /\ app.stream = 0
    /\ ~app.isRecording

\* FaceRecorder is idle: not monitoring, no socket held, no camera held.
FRIdle(s) == ~s.isMonitoring /\ s.websocket = 0 /\ s.stream = 0

\* C6: whenever a stopMonitoring call issued while monitoring has run to its
\* end, FaceRecorder is idle.
C6_StopEndsIdle ==
    [][ (fr.isMonitoring /\ FR_StopPostSettle) => FRIdle(fr') ]_vars

\* C7: starting again while a start is under way or done never yields a
\* second camera stream.
C7_SingleCameraStream == Cardinality(app.liveStreams) <= 1

\* C8: a manually started recording is closed only by the manual toggle or
\* by stopCamera, never by an auto-stop timer or a detection result.
C8_ForcedRecordingNotAutoStopped ==
    [][ (recOrigin = "manual" /\ app.isRecording /\ ~app'.isRecording)
          => (ClickManualRecord \/ ClickStopCamera) ]_vars

\* C9: a detection answer that arrives after stopCamera changes neither the
\* reported face status nor the recording state, and sets no auto-stop timer.
C9_LateResultDiscarded ==
    [][ (app.stream = 0 /\ ~app.faceDetectionActive /\ DetectResponse)
          => (/\ app'.faceStatus = app.faceStatus
              /\ app'.isRecording = app.isRecording
              /\ app'.recordingTimer = app.recordingTimer) ]_vars

\* C10: frames are detected one at a time: no two detection requests of the
\* session are in flight together.
C10_OneFrameAtATime == app.inflight <= 1

DetectFailure == DetectResult("notok") \/ DetectResult("error")

\* C11: a detection that fails while a recording is open is handled as a
\* no-face result is: the app's face state is "no face" after it (and the
\* recording stays open).
C11_FailureCountsAsNoFace ==
    [][ (app.isRecording /\ DetectFailure)
          => (/\ app'.isRecording
              /\ ~app'.lastFaceDetected
              /\ ~app'.faceStatus) ]_vars

\* C12: a detection that fails in a watching session leaves the session
\* watching with no recorder opened and no auto-stop timer set, and the next
\* detection is scheduled.
C12_FailureLeavesWatching ==
    [][ (Watching(app) /\ DetectFailure)
          => (/\ Watching(app')
              /\ OpenRecorders(app') = {}
              /\ app'.mediaRecorder = app.mediaRecorder
              /\ app'.recordingTimer = app.recordingTimer
              /\ app'.detectionTimer = "pending") ]_vars

\* C12 witness: a detection has just failed in a watching session that had
\* not seen a face before it.
C12_Witness ==
    /\ lastDetect = "failed"
    /\ Watching(app)
    /\ ~app.lastFaceDetected
    /\ app.detectionTimer = "pending"

\* The frames a, a+1, ..., b in order.
FramesFromTo(a, b) == [i \in 1..(b - a + 1) |-> a + i - 1]

\* C13: on the results [false, false, true, true, false, false, false, false,
\* false] with N = 3, from Watching: no recording before the 3rd result, one
\* open recording holding frames 3..k after the k-th result for k = 3..8, and
\* after the 9th the recording is closed and the catalog holds exactly one
\* entry, of frames 3..9.
C13_ScenarioOneRecording ==
    plan = Scenario =>
        LET k == Len(sc.results) IN
        /\ k < 3 => /\ sc.state = "Watching"
                    /\ sc.open = {}
                    /\ sc.catalog = <<>>
        /\ (3 <= k /\ k < 9) =>
               /\ sc.state = "Recording"
               /\ sc.catalog = <<>>
               /\ sc.open = {sc.activeRecording}
               /\ sc.written[sc.activeRecording] = FramesFromTo(3, k)
        /\ k = 9 => /\ sc.state = "Watching"
                    /\ sc.open = {}
                    /\ Len(sc.catalog) = 1
                    /\ sc.written[sc.catalog[1]] = FramesFromTo(3, 9)

\* C13, amended: on the same results with N = 3 the recording opens at the 3rd
\* result, holds frames 3..k after the k-th result for k = 3..6, and is closed
\* by the 7th result, the third no-face result in a row; from then on the
\* session is Watching and the catalog holds exactly one entry, of frames 3..7.
C13_ScenarioClosesAtThirdNoFace ==
    plan = Scenario =>
        LET k == Len(sc.results) IN
        /\ k < 3 => /\ sc.state = "Watching"
                    /\ sc.open = {}
                    /\ sc.catalog = <<>>
        /\ (3 <= k /\ k < 7) =>
               /\ sc.state = "Recording"
               /\ sc.catalog = <<>>
               /\ sc.open = {sc.activeRecording}
               /\ sc.written[sc.activeRecording] = FramesFromTo(3, k)
        /\ k >= 7 => /\ sc.state = "Watching"
                     /\ sc.open = {}
                     /\ Len(sc.catalog) = 1
                     /\ sc.written[sc.catalog[1]] = FramesFromTo(3, 7)

\* C13 witness: the scripted run has handled all nine results.
C13_Witness ==
    /\ plan = Scenario
    /\ Len(sc.results) = 9
    /\ Len(sc.catalog) = 1

\* The number of results at the end of r that are not a face.
RECURSIVE TrailingNoFace(_)
TrailingNoFace(r) ==
    IF r = <<>> \/ r[Len(r)] = "face"
    THEN 0
    ELSE 1 + TrailingNoFace(SubSeq(r, 1, Len(r) - 1))

C19_BoundedQueueBackpressure ==
    [][ /\ Len(sc'.queue) <= QueueBound
        /\ Cardinality(sc'.open) <= 1
        /\ SC_SubmitFrame =>
              /\ sc'.answer = "rejected"
                    <=> (sc.state # "Idle" /\ Len(sc.queue) = QueueBound)
              /\ sc'.answer = "rejected" => sc'.queue = sc.queue
              /\ sc'.answer = "accepted"
                    => sc'.queue = Append(sc.queue, sc'.frameSeq) ]_vars

\* C19 witness: a frame was rejected because the queue was full behind a
\* detection under way, while a recording was open.
C19_Witness ==
    /\ sc.answer = "rejected"
    /\ Len(sc.queue) = QueueBound
    /\ sc.detecting # 0
    /\ sc.state = "Recording"
    /\ Cardinality(sc.open) = 1

ShownFiles(s) == {s.recordings[i].filename : i \in 1..Len(s.recordings)}

\* C15: once a delete of f has ended in success, no list on screen holds f,
\* whatever list request was under way when the delete happened.
C15_DeletedNeverListed ==
    ~lib.isLoading => lib.deleted \cap ShownFiles(lib) = {}

C18_FinalizedOnce ==
    \A n \in 1..sv.recNo :
        /\ Cardinality({i \in 1..Len(sv.saves) : sv.saves[i] = n}) <= 1
        /\ Cardinality({i \in 1..Len(sv.uploads) : sv.uploads[i].of = n}) <= 1
        /\ Cardinality({i \in 1..Len(sv.catalog) : sv.catalog[i].of = n}) <= 1

\* C18 witness: a recording was stopped by the button, stopCamera asked for a
\* stop again, and the recording reached the catalog.
C18_Witness ==
    /\ sv.stopAgain
    /\ sv.saves = <<1>>
    /\ Len(sv.catalog) = 1
    /\ sv.uploads = <<>>
    /\ sv.events = <<>>

\* The connection is lost: FaceRecorder still holds a socket that is closed.
FRConnectionLost(s) == s.websocket # 0 /\ s.sockets[s.websocket] = "none"

\* C20: once the connection is lost while monitoring, monitoring is
\* eventually off on the client.
C20_LostConnectionEndsMonitoring ==
    (fr.isMonitoring /\ FRConnectionLost(fr)) ~> ~fr.isMonitoring

\* C21: the frames of a session reach the recording in the order they were
\* captured: the client hands them to the socket in capture order, the socket
\* and the controller keep that order.  On the client: the frames sent so far
\* are in capture order.
C21_SentInCaptureOrder ==
    \A i, j \in 1..Len(cam.sent) : i < j => cam.sent[i] < cam.sent[j]

\* C22: a chunk is appended to a writer only while the writer is Open.  The
\* writer of FaceRecordingApp is the MediaRecorder with the chunk list
\* startRecording made for it; it is Open while the recorder records,
\* Finalizing from mediaRecorder.stop() to its stop event, Closed after.
\* Whenever the chunk list grows, the recorder it was made for is recording.
C22_AppendOnlyWhileOpen ==
    [][ Len(sv'.recordedChunks) > Len(sv.recordedChunks)
            => sv.mediaRecorder \in sv.active ]_vars

\* C23: deleting a filename that is not in the catalog fails and changes
\* nothing.  A DELETE that finds its file absent is answered with a failure
\* and leaves the stored files as they are; when handleDelete learns of the
\* failure (its request ends and no file joins the deleted ones) the list on
\* screen and the stored files stay as they are.
C23_AbsentDeleteChangesNothing ==
    [][ /\ \A k \in 1..Len(lib.deleteReqs) :
              ( /\ Len(lib'.deleteReqs) = Len(lib.deleteReqs)
                /\ lib.deleteReqs[k].stage = "sent"
                /\ lib'.deleteReqs[k].stage # "sent"
                /\ lib.deleteReqs[k].row.filename \notin lib.files )
              => /\ lib'.deleteReqs[k].stage = "failed"
                 /\ lib'.files = lib.files
                 /\ lib'.recordings = lib.recordings
        /\ (Len(lib'.deleteReqs) < Len(lib.deleteReqs) /\ lib'.deleted = lib.deleted)
              => /\ lib'.recordings = lib.recordings
                 /\ lib'.files = lib.files ]_vars

\* A delete of a file that was gone has been answered with a failure, and
\* the row of the file is on screen.
C23_Witness ==
    \E k \in 1..Len(lib.deleteReqs) :
        /\ lib.deleteReqs[k].stage = "failed"
        /\ lib.deleteReqs[k].row.filename \notin lib.files
        /\ lib.deleteReqs[k].row.filename \in ShownFiles(lib)
        /\ ~lib.isLoading

\* C26: list() returns exactly the recordings in storage, newest first.
\* Whenever GET /recordings is answered, the answer holds every stored file
\* once and no other, each file before all older ones.
C26_ListIsStorageNewestFirst ==
    [][ (lib.listReq.stage = "sent" /\ lib'.listReq.stage = "answered")
            => LET answer == lib'.listReq.answer
               IN /\ {answer[i] : i \in 1..Len(answer)} = lib.files
                  /\ Len(answer) = Cardinality(lib.files)
                  /\ \A i, j \in 1..Len(answer) : i < j => answer[i] > answer[j] ]_vars

\* A list of several files, with a gap left by a delete, was answered.
C26_Witness ==
    /\ lib.listReq.stage = "answered"
    /\ Len(lib.listReq.answer) >= 2
    /\ {lib.listReq.answer[i] : i \in 1..Len(lib.listReq.answer)} = lib.files
    /\ \E f \in Files : f \notin lib.files /\ f < lib.listReq.answer[1]

\* C24: submitFrame for a session that was never started, or was stopped,
\* fails with InvalidState and has no effect: the session stays Idle, no
\* writer is opened, nothing is queued or appended.
C24_SubmitWithoutSessionIsInvalid ==
    [][ (sc.state = "Idle" /\ SC_SubmitFrame)
            => sc' = [sc EXCEPT !.answer = "invalid"] ]_vars

\* A frame was refused with InvalidState after the session was stopped.
C24_Witness ==
    /\ sc.answer = "invalid"
    /\ sc.state = "Idle"
    /\ sc.frameSeq > 0
    /\ sc.open = {}

C28_RecordingOnlyWhileStarted ==
    app.isRecording => (app.stream # 0 /\ cameraWanted = "start")

\* C29: an auto-triggered recording lasts the configured duration: unless the
\* user or stopCamera ends it, it is stopped by the auto-stop timer that
\* startAutoRecording set for it, and by no timer set earlier.  While such a
\* recording is open, a timer the app no longer holds leaves it open.
C29_AutoRecordingKeepsItsDuration ==
    [][ (app.isRecording /\ recOrigin = "detect" /\ OrphanRecordingTimerFire)
            => app'.isRecording ]_vars

\* The detection chains of FaceRecordingApp: requests in flight and timers
\* that will call detectFace.
DetectionChains(s) ==
    s.inflight + s.detOrphans + (IF s.detectionTimer = "pending" THEN 1 ELSE 0)

\* C30: at most one detection chain exists at any time: one request in flight
\* or one pending detection timer, never two.
C30_OneDetectionChain == DetectionChains(app) <= 1

\* C31: an auto-stop timer is pending only while the recording that the same
\* startAutoRecording call started is in progress.  Whenever an auto-stop
\* timer is pending, it is the one timer the app holds, and an auto-triggered
\* recording is open.
C31_TimerOnlyWithItsRecording ==
    (app.recordingTimer = "pending" \/ app.recOrphans > 0)
        => /\ app.recOrphans = 0
           /\ app.isRecording
           /\ recOrigin = "detect"

\* C32: every blob saveRecording uploads consists of exactly the chunks of the
\* MediaRecorder whose stop event triggered the upload, and no chunk is lost.
\* Every upload under way and every stored recording holds the one chunk of
\* its own recorder; a recorder whose stop event ran after it emitted a chunk
\* has an upload or a stored recording.
C32_BlobIsOwnChunks ==
    /\ \A k \in 1..Len(sv.uploads) : sv.uploads[k].blob = <<sv.uploads[k].of>>
    /\ \A k \in 1..Len(sv.catalog) : sv.catalog[k].blob = <<sv.catalog[k].of>>

\* C34: stopMonitoring always ends with isMonitoring false, the WebSocket
\* closed and the camera tracks stopped, also when POST /stop fails.  Whenever
\* a POST /stop settles, fulfilled or rejected, the client is left not
\* monitoring, holding no socket and no stream.
C34_StopAlwaysCleansUp ==
    [][ FR_StopPostSettle
            => (~fr'.isMonitoring /\ fr'.websocket = 0 /\ fr'.stream = 0) ]_vars

\* POST /start is answered with an error status or rejected: startMonitoring
\* goes to its catch.
FR_StartPostFailed ==
    /\ fr.startPosts > 0
    /\ fr' = [fr EXCEPT !.startPosts = @ - 1]

\* C35: when startMonitoring fails after the camera was acquired, the state is
\* as before the call.  When POST /start fails for a client that is not
\* monitoring, the client stays not monitoring, holds no socket, has started
\* no capture loop, and the stream the call acquired is released.
C35_FailedStartReleasesCamera ==
    [][ (FR_StartPostFailed /\ ~fr.isMonitoring)
            => /\ ~fr'.isMonitoring
               /\ fr'.websocket = 0
               /\ fr'.loops = fr.loops
               /\ fr'.stream = 0
               /\ fr.stream \notin fr'.liveStreams ]_vars

\* C36: FaceRecorder runs at most one frame-capture loop at a time: at most
\* one captureFrame callback is scheduled.
C36_OneCaptureLoop == fr.loops <= 1

\* The entries n, n+1, ..., m in this order.
EntriesFromTo(n, m) == [i \in 1..(m - n + 1) |-> n + i - 1]

\* The last n elements of a sequence, all of them when it is shorter.
LastN(q, n) == IF Len(q) <= n THEN q ELSE SubSeq(q, Len(q) - n + 1, Len(q))

\* C38: after every call of log the log container holds at most 100 entries,
\* namely the most recent ones in logging order: a call of log leaves the
\* entries the container held before (none, when clearLogs emptied it first)
\* followed by the new entry, cut to the last LogLimit of them.
C38_LogKeepsLastHundred ==
    [][ /\ LG_Log =>
            Children(lg'.nodes) = LastN(Append(Children(lg.nodes), lg'.logged), LogLimit)
        /\ LG_ClickClearLogs => Children(lg'.nodes) = <<lg'.logged>>
        /\ (LG_Log \/ LG_ClickClearLogs) =>
            /\ Len(Children(lg'.nodes)) <= LogLimit
            /\ Children(lg'.nodes) =
                   EntriesFromTo(lg'.logged - Len(Children(lg'.nodes)) + 1, lg'.logged) ]_vars

\* More than LogLimit lines were logged since the last clearing, and exactly
\* the last LogLimit entries are left.
C38_Witness ==
    /\ lg.logged > LogLimit
    /\ Children(lg.nodes) = EntriesFromTo(lg.logged - LogLimit + 1, lg.logged)

\* C37: when clearAllRecordings reports 'All recordings cleared', every
\* recording of the list it fetched has been deleted on the server, and no
\* DELETE of the call failed.
C37_ClearedMeansAllDeleted ==
    \A k \in 1..Len(ca.calls) :
        ca.calls[k].message = "All recordings cleared"
            => \A i \in 1..Len(ca.calls[k].listed) :
                   /\ ca.calls[k].listed[i] \notin ca.files
                   /\ ca.calls[k].answers[i] = "ok"

\* C33: in CameraPreview, whenever detection is inactive (switched off, or the
\* component is off the page) and no startCamera call is awaiting
\* getUserMedia, no camera track is live and no capture interval is running.
C33_InactiveMeansCameraOff ==
    (~(cp.mounted /\ cp.isDetectionActive) /\ cp.gumPending = 0)
        => (cp.liveStreams = {} /\ cp.intervals = {})

====
